---- MODULE Spec2Model ----
(***************************************************************************)
(* A model of project/yaml_file.py: the YamlFile document (load, save,     *)
(* transform_yaml, the path-addressed accessors) and the _atomic_replace   *)
(* primitive it saves with.                                                *)
(*                                                                         *)
(* Trees.  A parsed document is a function from paths (sequences of keys,  *)
(* the root being <<>>) to node values: MAP for a mapping, NULL for the    *)
(* YAML null and n >= 1 for the integer scalar n.  A key is a sequence of  *)
(* characters, as str.split(".") produces them.  The insertion order of a  *)
(* mapping's keys and the comments attached to nodes are not modelled: the *)
(* serializer emits the keys of a mapping in the order of AllKeys.         *)
(*                                                                         *)
(* Files.  A file is a record [exists, data]; data is the sequence of the  *)
(* lines of the YAML text, a line being [d, k, v]: indentation depth d,    *)
(* key k and what follows the colon (v = HDR: nothing, v = EMPTY: "{}",    *)
(* v = BAD: an unterminated quoted scalar, v >= 1: an integer).            *)
(***************************************************************************)
EXTENDS Integers, Sequences, FiniteSets, TLC

\* ------------------------------------------------------------------ bounds
MaxVal == 1        \* the integer scalars written and read are 1..MaxVal
MaxChunks == 2     \* a write of the temporary file is done in this many chunks

\* --------------------------------------------------------------- encodings
MAP == 0           \* node value: a mapping
NULL == -1         \* node value: the YAML null (Python None)
HDR == -1          \* line value: nothing after the colon
EMPTY == 0         \* line value: the flow mapping "{}"
BAD == -2          \* line value: an unterminated quoted scalar

Values == 1..MaxVal

Ka == <<"a">>
Kb == <<"b">>
Kx == <<"x">>
KRoot == <<>>
AllKeys == <<Ka, Kb, Kx>>
KeySet == {AllKeys[i] : i \in 1..Len(AllKeys)}

\* the section_path arguments the callers pass: "a" and "a.b"
SectionPaths == {<<"a">>, <<"a", ".", "b">>}
\* the key arguments the callers pass
SetKeys == {Kb, Kx}
\* the values arguments of set_values: dicts over SetKeys, the empty dict included
ValueDicts == UNION {[S -> Values] : S \in SUBSET SetKeys}

NoneMsg == "None"
Absent == [exists |-> FALSE, data |-> <<>>]
FileOf(lines) == [exists |-> TRUE, data |-> lines]

\* ------------------------------------------------------------------- trees
EmptyTree == (<<>> :> MAP)

IsPrefix(p, q) == Len(p) <= Len(q) /\ SubSeq(q, 1, Len(p)) = p

Restrict(t, S) == [q \in S |-> t[q]]

\* p in current, for a mapping node current
HasKey(t, cur, k) == Append(cur, k) \in DOMAIN t

\* the tree with the node at p (and everything under it) replaced by the leaf v
SetNode(t, p, v) ==
    LET keep == {q \in DOMAIN t : ~IsPrefix(p, q)}
    IN  [q \in keep \cup {p} |-> IF q = p THEN v ELSE t[q]]

\* the tree with the node at p and everything under it removed
DelNode(t, p) == Restrict(t, {q \in DOMAIN t : ~IsPrefix(p, q)})

\* the node at p as a tree of its own (what an accessor hands back)
Subtree(t, p) ==
    LET under == {q \in DOMAIN t : IsPrefix(p, q)}
    IN  [r \in {SubSeq(q, Len(p) + 1, Len(q)) : q \in under} |-> t[p \o r]]

\* ------------------------------------------------- str.split(".")
RECURSIVE SplitFrom(_, _, _)
SplitFrom(s, i, acc) ==
    IF i > Len(s) THEN <<acc>>
    ELSE IF s[i] = "." THEN <<acc>> \o SplitFrom(s, i + 1, <<>>)
    ELSE SplitFrom(s, i + 1, Append(acc, s[i]))

Split(s) == SplitFrom(s, 1, <<>>)

\* ------------------------------------------------- ryaml.dump
Line(d, k, v) == [d |-> d, k |-> k, v |-> v]

RECURSIVE DumpKeys(_, _, _)
\* the lines of the keys AllKeys[i..] of the mapping at path p, in block style
DumpKeys(t, p, i) ==
    IF i > Len(AllKeys) THEN <<>>
    ELSE LET k == AllKeys[i]
             q == Append(p, k)
         IN  IF q \notin DOMAIN t THEN DumpKeys(t, p, i + 1)
             ELSE LET kids == DumpKeys(t, q, 1)
                      v == IF t[q] = MAP
                           THEN (IF kids = <<>> THEN EMPTY ELSE HDR)
                           ELSE IF t[q] = NULL THEN HDR ELSE t[q]
                  IN  <<Line(Len(q), k, v)>> \o kids \o DumpKeys(t, p, i + 1)

Dump(t) ==
    IF t[<<>>] # MAP THEN <<Line(0, KRoot, IF t[<<>>] = NULL THEN HDR ELSE t[<<>>])>>
    ELSE LET body == DumpKeys(t, <<>>, 1)
         IN  IF body = <<>> THEN <<Line(0, KRoot, EMPTY)>> ELSE body

\* ------------------------------------------------- ryaml.load
RECURSIVE PathAt(_, _)
\* the path of the node that line i of a block mapping describes
PathAt(ls, i) ==
    IF ls[i].d = 1 THEN <<ls[i].k>>
    ELSE LET up == CHOOSE j \in 1..(i - 1) :
                       /\ ls[j].d = ls[i].d - 1
                       /\ \A m \in (j + 1)..(i - 1) : ls[m].d >= ls[i].d
         IN  Append(PathAt(ls, up), ls[i].k)

\* the text is well-formed: no unterminated scalar, consistent indentation
\* under a key that opens a block, no duplicate key in a mapping
WellFormed(ls) ==
    /\ \A i \in 1..Len(ls) : ls[i].v # BAD
    /\ IF ls[1].d = 0 THEN Len(ls) = 1 /\ ls[1].v # HDR
       ELSE /\ ls[1].d = 1
            /\ \A i \in 2..Len(ls) :
                 /\ ls[i].d >= 1
                 /\ ls[i].d <= ls[i - 1].d + 1
                 /\ (ls[i].d = ls[i - 1].d + 1) => (ls[i - 1].v = HDR)
            /\ \A i, j \in 1..Len(ls) : (i # j) => (PathAt(ls, i) # PathAt(ls, j))

OpensBlock(ls, i) == i < Len(ls) /\ ls[i + 1].d = ls[i].d + 1

\* [err, msg, none, tree]: a YAMLError with its diagnostic, or None for an
\* empty text, or the tree
Parse(ls) ==
    IF ls = <<>> THEN [err |-> FALSE, msg |-> NoneMsg, none |-> TRUE, tree |-> EmptyTree]
    ELSE IF ~WellFormed(ls)
    THEN [err |-> TRUE, msg |-> "YAMLError", none |-> FALSE, tree |-> EmptyTree]
    ELSE IF ls[1].d = 0
    THEN [err |-> FALSE, msg |-> NoneMsg, none |-> FALSE, tree |-> (<<>> :> ls[1].v)]
    ELSE LET NodeOf(i) == IF ls[i].v = HDR
                          THEN (IF OpensBlock(ls, i) THEN MAP ELSE NULL)
                          ELSE ls[i].v
             paths == {PathAt(ls, i) : i \in 1..Len(ls)}
             tr == [p \in paths \cup {<<>>} |->
                      IF p = <<>> THEN MAP
                      ELSE NodeOf(CHOOSE i \in 1..Len(ls) : PathAt(ls, i) = p)]
         IN  [err |-> FALSE, msg |-> NoneMsg, none |-> FALSE, tree |-> tr]

\* ------------------------------------------------- the file system
\* Two names in one directory: "P", the document's path, and "T", P + ".tmp".
\* fs.dir maps a name to the inode it links (NoIno: no such file) and fs.data
\* an inode to the lines it holds.  An open file descriptor is an inode.
Names == {"P", "T"}
NoIno == 0
Hole == Line(0, KRoot, BAD)    \* the zero bytes of a gap left by a write past the end

Min(a, b) == IF a < b THEN a ELSE b

ReadFile(fs, name) ==
    IF fs.dir[name] = NoIno THEN Absent ELSE FileOf(fs.data[fs.dir[name]])

\* os.path.isfile
IsFile(fs, name) == fs.dir[name] # NoIno

\* open(name, 'w'): truncates the file the name links, or creates one.
\* used is the set of inodes that are linked or open.  [fs, ino]
FsOpenW(fs, name, used) ==
    LET ino == IF fs.dir[name] # NoIno THEN fs.dir[name]
               ELSE CHOOSE i \in DOMAIN fs.data :
                        i \notin used /\ \A j \in DOMAIN fs.data : j \notin used => i <= j
    IN  [fs |-> [dir |-> [fs.dir EXCEPT ![name] = ino],
                 data |-> [fs.data EXCEPT ![ino] = <<>>]],
         ino |-> ino]

\* write(2) of lines at offset off of an open inode
FsWriteAt(fs, ino, off, lines) ==
    LET old == fs.data[ino]
        n == IF Len(old) > off + Len(lines) THEN Len(old) ELSE off + Len(lines)
        new == [i \in 1..n |->
                  IF i > off /\ i <= off + Len(lines) THEN lines[i - off]
                  ELSE IF i <= Len(old) THEN old[i] ELSE Hole]
    IN  [fs EXCEPT !.data[ino] = new]

\* os.rename(src, dst), atomic; the caller has checked that src exists
FsRename(fs, src, dst) ==
    [fs EXCEPT !.dir = [fs.dir EXCEPT ![dst] = fs.dir[src], ![src] = NoIno]]

\* os.remove(name); the caller has checked that name exists
FsRemove(fs, name) == [fs EXCEPT !.dir[name] = NoIno]

\* an inode that is neither linked nor open holds nothing any more
Reclaim(fs, open) ==
    [fs EXCEPT !.data = [i \in DOMAIN fs.data |->
        IF i \in open \/ \E nm \in Names : fs.dir[nm] = i THEN fs.data[i] ELSE <<>>]]

Linked(fs) == {fs.dir[nm] : nm \in Names} \ {NoIno}

\* the chunks file.write(contents) reaches the file in: the first
\* MaxChunks - 1 lines one at a time, then the rest
NChunks(c) == Min(Len(c), MaxChunks)
Chunk(c, i) == IF i < MaxChunks THEN <<c[i]>> ELSE SubSeq(c, i, Len(c))
ChunkOff(c, i) == i - 1

\* the contents written straight to the path
TmpName_IsPath == "P"

\* the temporary path of _atomic_replace(path, ...)
TmpName == "T"

\* an _atomic_replace without the finally block
RemoveTmp_Never(fs, rmfail) == fs

\* os.remove(tmp) in the finally block; IOError and OSError are swallowed
RemoveTmp(fs, rmfail) ==
    IF rmfail \/ ~IsFile(fs, TmpName) THEN fs ELSE FsRemove(fs, TmpName)

RECURSIVE WriteChunks(_, _, _, _)
\* chunks 1..n of contents written through the descriptor ino
WriteChunks(fs, ino, c, n) ==
    IF n = 0 THEN fs
    ELSE FsWriteAt(WriteChunks(fs, ino, c, n - 1), ino, ChunkOff(c, n), Chunk(c, n))

\* The faults of one call: at is the step that fails ("none", "makedirs",
\* "open", "write", "rename"), n the chunks written before a failing write,
\* rm whether os.remove(tmp) fails.
FaultsRm(R) ==
    [at : {"none", "makedirs", "open", "rename"}, n : {0}, rm : R]
      \cup [at : {"write"}, n : 0..(MaxChunks - 1), rm : R]
Faults == FaultsRm(BOOLEAN)

\* _atomic_replace(path, contents) run to completion by the only process.
\* [fs, exc]
AtomicReplace(fs, contents, fault) ==
    IF fault.at = "open"
    THEN [fs |-> RemoveTmp(fs, fault.rm), exc |-> "IOError"]
    ELSE LET o == FsOpenW(fs, TmpName, Linked(fs))
             k == IF fault.at = "write" THEN Min(fault.n, NChunks(contents) - 1)
                  ELSE NChunks(contents)
             w == WriteChunks(o.fs, o.ino, contents, k)
         IN  IF fault.at = "write" \/ fault.at = "rename"
             THEN [fs |-> Reclaim(RemoveTmp(w, fault.rm), {}), exc |-> "IOError"]
             ELSE [fs |-> Reclaim(RemoveTmp(FsRename(w, TmpName, "P"), fault.rm), {}),
                   exc |-> "none"]

\* ------------------------------------------------- the document
\* A document state is [yaml, dirty, corrupted, msg]; a call's outcome adds
\* exc, the exception it raised ("none": it returned).
Doc(y, d, c, m) == [yaml |-> y, dirty |-> d, corrupted |-> c, msg |-> m]

\* a fresh mapping that does not mark the document dirty
Fresh_NotDirty(s) == [s EXCEPT !.yaml = EmptyTree]

\* lines 91-97: a fresh mapping stands in for None and marks the document dirty
Fresh(s) == [s EXCEPT !.yaml = EmptyTree, !.dirty = TRUE]

\* a load() without lines 70-71: the flags of the last load survive
LoadDoc_KeepsMessage(s, f, io) ==
    IF io # "ok" THEN [doc |-> s, exc |-> "IOError"]
    ELSE IF ~f.exists THEN [doc |-> Fresh([s EXCEPT !.corrupted = FALSE]), exc |-> "none"]
    ELSE LET r == Parse(f.data)
         IN  IF r.err
             THEN [doc |-> Fresh([s EXCEPT !.corrupted = TRUE, !.msg = r.msg]),
                   exc |-> "none"]
             ELSE IF r.none
             THEN [doc |-> Fresh([s EXCEPT !.corrupted = FALSE, !.dirty = FALSE]),
                   exc |-> "none"]
             ELSE [doc |-> [s EXCEPT !.corrupted = FALSE, !.yaml = r.tree, !.dirty = FALSE],
                   exc |-> "none"]

\* a load() without line 80: a parsed file does not clear dirty
LoadDoc_KeepsDirty(s, f, io) ==
    LET s1 == [s EXCEPT !.corrupted = FALSE, !.msg = NoneMsg]
    IN  IF io # "ok" THEN [doc |-> s1, exc |-> "IOError"]
        ELSE IF ~f.exists THEN [doc |-> Fresh(s1), exc |-> "none"]
        ELSE LET r == Parse(f.data)
             IN  IF r.err
                 THEN [doc |-> Fresh([s1 EXCEPT !.corrupted = TRUE, !.msg = r.msg]),
                       exc |-> "none"]
                 ELSE IF r.none
                 THEN [doc |-> Fresh(s1), exc |-> "none"]
                 ELSE [doc |-> [s1 EXCEPT !.yaml = r.tree], exc |-> "none"]

\* load(); io is "ok" or the errno of a failing open/read other than ENOENT.
LoadDoc(s, f, io) ==
    LET s1 == [s EXCEPT !.corrupted = FALSE, !.msg = NoneMsg]
    IN  IF io # "ok" THEN [doc |-> s1, exc |-> "IOError"]
        ELSE IF ~f.exists THEN [doc |-> Fresh(s1), exc |-> "none"]
        ELSE LET r == Parse(f.data)
             IN  IF r.err
                 THEN [doc |-> Fresh([s1 EXCEPT !.corrupted = TRUE, !.msg = r.msg]),
                       exc |-> "none"]
                 ELSE IF r.none
                 THEN [doc |-> Fresh([s1 EXCEPT !.dirty = FALSE]), exc |-> "none"]
                 ELSE [doc |-> [s1 EXCEPT !.yaml = r.tree, !.dirty = FALSE],
                       exc |-> "none"]

\* a gate that never raises
ThrowIfCorrupted_Never(s) == FALSE

\* _throw_if_corrupted
ThrowIfCorrupted(s) == s.corrupted

RECURSIVE GetSection(_, _, _)
\* _get_section_or_none from the node cur on: [kind, at] with kind "node"
\* (the node at path at), "none", or "TypeError" ("p in current" on a scalar)
GetSection(t, cur, pieces) ==
    IF pieces = <<>> THEN [kind |-> "node", at |-> cur]
    ELSE IF t[cur] # MAP THEN [kind |-> "TypeError", at |-> cur]
    ELSE IF HasKey(t, cur, Head(pieces))
    THEN GetSection(t, Append(cur, Head(pieces)), Tail(pieces))
    ELSE [kind |-> "none", at |-> cur]

RECURSIVE EnsureFrom(_, _, _)
\* the loop of _ensure_section from the node cur on: [doc, exc, at]
EnsureFrom(s, cur, pieces) ==
    IF pieces = <<>> THEN [doc |-> s, exc |-> "none", at |-> cur]
    ELSE IF s.yaml[cur] # MAP THEN [doc |-> s, exc |-> "TypeError", at |-> cur]
    ELSE LET nxt == Append(cur, Head(pieces))
         IN  IF ~HasKey(s.yaml, cur, Head(pieces))
             THEN EnsureFrom([s EXCEPT !.yaml = SetNode(s.yaml, nxt, MAP), !.dirty = TRUE],
                             nxt, Tail(pieces))
             ELSE EnsureFrom(s, nxt, Tail(pieces))

\* an _ensure_section without line 191: created segments do not mark dirty
EnsureSection_NoDirty(s, path) ==
    IF ThrowIfCorrupted(s) THEN [doc |-> s, exc |-> "ModifyCorrupted", at |-> <<>>]
    ELSE LET e == EnsureFrom(s, <<>>, Split(path))
         IN  [e EXCEPT !.doc.dirty = s.dirty]

\* _ensure_section(section_path)
EnsureSection(s, path) ==
    IF ThrowIfCorrupted(s) THEN [doc |-> s, exc |-> "ModifyCorrupted", at |-> <<>>]
    ELSE EnsureFrom(s, <<>>, Split(path))

RECURSIVE AssignAll(_, _, _, _)
\* existing[k] = v for the entries of values whose keys are AllKeys[i..]
AssignAll(t, at, values, i) ==
    IF i > Len(AllKeys) THEN t
    ELSE IF AllKeys[i] \in DOMAIN values
    THEN AssignAll(SetNode(t, Append(at, AllKeys[i]), values[AllKeys[i]]), at, values, i + 1)
    ELSE AssignAll(t, at, values, i + 1)

\* a set_values without line 208: dirty is left to _ensure_section
SetValues_NoDirty(s, path, values) ==
    IF ThrowIfCorrupted(s) THEN [doc |-> s, exc |-> "ModifyCorrupted"]
    ELSE LET e == EnsureSection(s, path)
         IN  IF e.exc # "none" THEN [doc |-> e.doc, exc |-> e.exc]
             ELSE IF DOMAIN values = {} THEN [doc |-> e.doc, exc |-> "none"]
             ELSE IF e.doc.yaml[e.at] # MAP THEN [doc |-> e.doc, exc |-> "TypeError"]
             ELSE [doc |-> [e.doc EXCEPT !.yaml = AssignAll(e.doc.yaml, e.at, values, 1)],
                   exc |-> "none"]

\* set_values(section_path, values)
SetValues(s, path, values) ==
    IF ThrowIfCorrupted(s) THEN [doc |-> s, exc |-> "ModifyCorrupted"]
    ELSE LET e == EnsureSection(s, path)
         IN  IF e.exc # "none" THEN [doc |-> e.doc, exc |-> e.exc]
             ELSE IF DOMAIN values = {} THEN [doc |-> e.doc, exc |-> "none"]
             ELSE IF e.doc.yaml[e.at] # MAP THEN [doc |-> e.doc, exc |-> "TypeError"]
             ELSE [doc |-> [e.doc EXCEPT !.yaml = AssignAll(e.doc.yaml, e.at, values, 1),
                                         !.dirty = TRUE],
                   exc |-> "none"]

\* a set_value that leaves the marking of dirty to _ensure_section
SetValue_NoDirty(s, path, key, value) ==
    IF ThrowIfCorrupted(s) THEN [doc |-> s, exc |-> "ModifyCorrupted"]
    ELSE LET e == EnsureSection(s, path)
         IN  IF e.exc # "none" THEN [doc |-> e.doc, exc |-> e.exc]
             ELSE IF e.doc.yaml[e.at] # MAP THEN [doc |-> e.doc, exc |-> "TypeError"]
             ELSE [doc |-> [e.doc EXCEPT !.yaml = SetNode(e.doc.yaml, Append(e.at, key), value)],
                   exc |-> "none"]

\* set_value(section_path, key, value)
SetValue(s, path, key, value) ==
    IF ThrowIfCorrupted(s) THEN [doc |-> s, exc |-> "ModifyCorrupted"]
    ELSE LET e == EnsureSection(s, path)
         IN  IF e.exc # "none" THEN [doc |-> e.doc, exc |-> e.exc]
             ELSE IF e.doc.yaml[e.at] # MAP THEN [doc |-> e.doc, exc |-> "TypeError"]
             ELSE [doc |-> [e.doc EXCEPT !.yaml = SetNode(e.doc.yaml, Append(e.at, key), value),
                                         !.dirty = TRUE],
                   exc |-> "none"]

\* the result of _get_section_or_none is None: a segment is missing, or the
\* node the path ends at is the YAML null
IsNone(t, g) == g.kind = "none" \/ (g.kind = "node" /\ t[g.at] = NULL)

\* get_value(section_path, key, default): [exc, isdefault, ret]; ret is the
\* node returned, as a tree (a scalar is a tree of one node); NoKey is key=None
NoKey == <<"None">>
Leaf(v) == (<<>> :> v)
GetValue(t, path, key, default) ==
    LET g == GetSection(t, <<>>, Split(path))
    IN  IF g.kind = "TypeError"
        THEN [exc |-> "TypeError", isdefault |-> FALSE, ret |-> Leaf(NULL)]
        ELSE IF IsNone(t, g)
        THEN [exc |-> "none", isdefault |-> TRUE, ret |-> Leaf(default)]
        ELSE IF key = NoKey
        THEN [exc |-> "none", isdefault |-> FALSE, ret |-> Subtree(t, g.at)]
        ELSE IF t[g.at] # MAP
        THEN [exc |-> "AttributeError", isdefault |-> FALSE, ret |-> Leaf(NULL)]
        ELSE IF HasKey(t, g.at, key)
        THEN [exc |-> "none", isdefault |-> FALSE, ret |-> Subtree(t, Append(g.at, key))]
        ELSE [exc |-> "none", isdefault |-> TRUE, ret |-> Leaf(default)]

\* a get_value that walks the path with _ensure_section
GetValueOn_Ensures(s, path, key, default) ==
    LET e == EnsureSection(s, path)
    IN  [doc |-> e.doc, res |-> GetValue(e.doc.yaml, path, key, default)]

\* get_value as a call on the document s: [doc, res]; lines 173-181 and
\* 235-241 assign to nothing of self and only read the tree
GetValueOn(s, path, key, default) ==
    [doc |-> s, res |-> GetValue(s.yaml, path, key, default)]

\* The transformers passed to transform_yaml: what they do to the tree
\* ("keep": nothing, "del": delete the key "a" of the root) and what they
\* return ("1": a value that is true but is not the object True).
Transformers == [mut : {"keep", "del"}, ret : {"True", "False", "None", "1"}]

ApplyTransformer(t, tr) ==
    IF tr.mut = "del" /\ t[<<>>] = MAP THEN DelNode(t, <<Ka>>) ELSE t

\* a transform_yaml that assigns "result is not True" to dirty
TransformYaml_Assigns(s, tr) ==
    IF ThrowIfCorrupted(s) THEN [doc |-> s, exc |-> "ModifyCorrupted", ran |-> FALSE]
    ELSE [doc |-> [s EXCEPT !.yaml = ApplyTransformer(s.yaml, tr),
                            !.dirty = (tr.ret # "True")],
          exc |-> "none", ran |-> TRUE]

\* the transformers that keep the contract of the docstring (lines 155-159)
\* on the tree t: they return True only if they left the tree as it was
HonestTransformers(t) ==
    {tr \in Transformers : tr.ret = "True" => ApplyTransformer(t, tr) = t}

\* transform_yaml(transformer): [doc, exc, ran]; ran: the transformer was called
TransformYaml(s, tr) ==
    IF ThrowIfCorrupted(s) THEN [doc |-> s, exc |-> "ModifyCorrupted", ran |-> FALSE]
    ELSE [doc |-> [s EXCEPT !.yaml = ApplyTransformer(s.yaml, tr),
                            !.dirty = IF tr.ret # "True" THEN TRUE ELSE s.dirty],
          exc |-> "none", ran |-> TRUE]

\* a save() that clears dirty before the write instead of after it
SaveDoc_ClearsFirst(s, fs, fault) ==
    IF ThrowIfCorrupted(s)
    THEN [doc |-> s, fs |-> fs, exc |-> "ModifyCorrupted", wrote |-> FALSE]
    ELSE IF ~s.dirty THEN [doc |-> s, fs |-> fs, exc |-> "none", wrote |-> FALSE]
    ELSE IF ~IsFile(fs, "P") /\ fault.at = "makedirs"
    THEN [doc |-> [s EXCEPT !.dirty = FALSE], fs |-> fs, exc |-> "IOError", wrote |-> FALSE]
    ELSE LET r == AtomicReplace(fs, Dump(s.yaml), fault)
         IN  [doc |-> [s EXCEPT !.dirty = FALSE], fs |-> r.fs, exc |-> r.exc,
              wrote |-> TRUE]

\* a save() without the dirty test of lines 140-141
SaveDoc_Always(s, fs, fault) ==
    IF ThrowIfCorrupted(s)
    THEN [doc |-> s, fs |-> fs, exc |-> "ModifyCorrupted", wrote |-> FALSE]
    ELSE IF ~IsFile(fs, "P") /\ fault.at = "makedirs"
    THEN [doc |-> s, fs |-> fs, exc |-> "IOError", wrote |-> FALSE]
    ELSE LET r == AtomicReplace(fs, Dump(s.yaml), fault)
         IN  IF r.exc # "none"
             THEN [doc |-> s, fs |-> r.fs, exc |-> r.exc, wrote |-> TRUE]
             ELSE [doc |-> [s EXCEPT !.dirty = FALSE], fs |-> r.fs, exc |-> "none",
                   wrote |-> TRUE]

\* save(): [doc, fs, exc, wrote]; wrote: the call reached _atomic_replace
SaveDoc(s, fs, fault) ==
    IF ThrowIfCorrupted(s)
    THEN [doc |-> s, fs |-> fs, exc |-> "ModifyCorrupted", wrote |-> FALSE]
    ELSE IF ~s.dirty THEN [doc |-> s, fs |-> fs, exc |-> "none", wrote |-> FALSE]
    ELSE IF ~IsFile(fs, "P") /\ fault.at = "makedirs"
    THEN [doc |-> s, fs |-> fs, exc |-> "IOError", wrote |-> FALSE]
    ELSE LET r == AtomicReplace(fs, Dump(s.yaml), fault)
         IN  IF r.exc # "none"
             THEN [doc |-> s, fs |-> r.fs, exc |-> r.exc, wrote |-> TRUE]
             ELSE [doc |-> [s EXCEPT !.dirty = FALSE], fs |-> r.fs, exc |-> "none",
                   wrote |-> TRUE]

\* ------------------------------------------------- state
VARIABLES
    yaml,                       \* self._yaml
    dirty,                      \* self._dirty
    corrupted,                  \* self._corrupted
    corrupted_error_message,    \* self._corrupted_error_message
    fs,                         \* the directory holding self.filename
    last,                       \* the last call: [op, exc, wrote, ran]
    wr                          \* the processes inside save(), by process id

vars == <<yaml, dirty, corrupted, corrupted_error_message, fs, last, wr>>
docvars == <<yaml, dirty, corrupted, corrupted_error_message>>

Self == Doc(yaml, dirty, corrupted, corrupted_error_message)

Inodes == 1..4

\* what a user's editor may leave at the path: an empty file, an unterminated
\* quoted scalar, "a: {x: 1}" in block style, a document that is one scalar,
\* and "a:" (a key whose value is null)
ExternalContents ==
    { <<>>,
      <<Line(1, Ka, BAD)>>,
      <<Line(1, Ka, HDR), Line(2, Kx, 1)>>,
      <<Line(0, KRoot, 1)>>,
      <<Line(1, Ka, HDR)>> }

EmptyFs == [dir |-> [nm \in Names |-> NoIno], data |-> [i \in Inodes |-> <<>>]]

\* the directory with the file P holding lines, written by somebody else
WithFile(lines) ==
    [dir |-> [nm \in Names |-> IF nm = "P" THEN 1 ELSE NoIno],
     data |-> [i \in Inodes |-> IF i = 1 THEN lines ELSE <<>>]]

InitialFs == {EmptyFs} \cup {WithFile(c) : c \in ExternalContents}

\* the record of a call: the method, the exception it raised ("none": it
\* returned), whether it called _atomic_replace, whether it called the transformer
Called(op, exc, wrote) == [op |-> op, exc |-> exc, wrote |-> wrote, ran |-> FALSE]

SetDoc(s) ==
    /\ yaml' = s.yaml
    /\ dirty' = s.dirty
    /\ corrupted' = s.corrupted
    /\ corrupted_error_message' = s.msg

\* __init__(filename): _dirty = False, then load(); a constructor that raises
\* leaves no object
Init ==
    /\ fs \in InitialFs
    /\ \E s \in {LoadDoc(Doc(EmptyTree, FALSE, FALSE, NoneMsg), ReadFile(fs, "P"), "ok").doc} :
          /\ yaml = s.yaml
          /\ dirty = s.dirty
          /\ corrupted = s.corrupted
          /\ corrupted_error_message = s.msg
    /\ last = Called("init", "none", FALSE)
    /\ wr = <<>>

\* ------------------------------------------------- the calls on a document
Load ==
    \E io \in {"ok", "EACCES"} :
        LET r == LoadDoc(Self, ReadFile(fs, "P"), io)
        IN  /\ SetDoc(r.doc)
            /\ last' = Called("load", r.exc, FALSE)
            /\ UNCHANGED <<fs, wr>>

SaveUnder(F) ==
    \E fault \in F :
        LET r == SaveDoc(Self, fs, fault)
        IN  /\ SetDoc(r.doc)
            /\ fs' = r.fs
            /\ last' = Called("save", r.exc, r.wrote)
            /\ UNCHANGED wr

TransformCall ==
    \E tr \in Transformers :
        LET r == TransformYaml(Self, tr)
        IN  /\ SetDoc(r.doc)
            /\ last' = [Called("transform_yaml", r.exc, FALSE) EXCEPT !.ran = r.ran]
            /\ UNCHANGED <<fs, wr>>

EnsureSectionCall ==
    \E path \in SectionPaths :
        LET r == EnsureSection(Self, path)
        IN  /\ SetDoc(r.doc)
            /\ last' = Called("_ensure_section", r.exc, FALSE)
            /\ UNCHANGED <<fs, wr>>

SetValuesCall ==
    \E path \in SectionPaths, values \in ValueDicts :
        LET r == SetValues(Self, path, values)
        IN  /\ SetDoc(r.doc)
            /\ last' = Called("set_values", r.exc, FALSE)
            /\ UNCHANGED <<fs, wr>>

SetValueCall ==
    \E path \in SectionPaths, key \in SetKeys, value \in Values :
        LET r == SetValue(Self, path, key, value)
        IN  /\ SetDoc(r.doc)
            /\ last' = Called("set_value", r.exc, FALSE)
            /\ UNCHANGED <<fs, wr>>

GetValueCall ==
    \E path \in SectionPaths, key \in SetKeys \cup {NoKey}, default \in Values :
        LET r == GetValueOn(Self, path, key, default)
        IN  /\ SetDoc(r.doc)
            /\ last' = Called("get_value", r.res.exc, FALSE)
            /\ UNCHANGED <<fs, wr>>

\* somebody edits, replaces or deletes the file outside the program
ExternalEdit ==
    /\ \E f \in InitialFs : fs' = Reclaim([fs EXCEPT !.dir["P"] = f.dir["P"],
                                                     !.data[1] = f.data[1]], {})
    /\ fs.dir["P"] \in {NoIno, 1}
    /\ fs.dir["T"] # 1
    /\ last' = Called("edit", "none", FALSE)
    /\ UNCHANGED <<docvars, wr>>

\* save() where every os.remove(tmp) that finds the file removes it
Save == SaveUnder(FaultsRm({FALSE}))

\* save() where os.remove(tmp) may fail as well
SaveRm == SaveUnder(Faults)

Next ==
    \/ Load
    \/ Save
    \/ TransformCall
    \/ EnsureSectionCall
    \/ SetValuesCall
    \/ SetValueCall
    \/ GetValueCall
    \/ ExternalEdit

Spec == Init /\ [][Next]_vars

\* the document used through load, save and the accessors alone, the file
\* being touched by nobody else
NextAcc ==
    \/ Load
    \/ Save
    \/ EnsureSectionCall
    \/ SetValuesCall
    \/ SetValueCall
    \/ GetValueCall

SpecAcc == Init /\ [][NextAcc]_vars

\* the same document in a directory where the removal of P.tmp can fail
NextRm ==
    \/ Load
    \/ SaveRm
    \/ EnsureSectionCall

SpecRm == Init /\ [][NextRm]_vars

\* transform_yaml with a transformer that reports its changes truthfully
TransformHonestCall ==
    \E tr \in HonestTransformers(yaml) :
        LET r == TransformYaml(Self, tr)
        IN  /\ SetDoc(r.doc)
            /\ last' = [Called("transform_yaml", r.exc, FALSE) EXCEPT !.ran = r.ran]
            /\ UNCHANGED <<fs, wr>>

\* the document as the only user of its file: nobody else touches the
\* directory and the transformers report their changes truthfully
NextOwn ==
    \/ Load
    \/ Save
    \/ TransformHonestCall
    \/ EnsureSectionCall
    \/ SetValuesCall
    \/ SetValueCall

SpecOwn == Init /\ [][NextOwn]_vars

\* ------------------------------------------------- processes inside save()
\* The steps of save() and _atomic_replace as the file system sees them, for
\* processes that each hold a dirty, non-corrupted document of their own on
\* the same path.  wr[w] is [pc, c, fd, n, exc, at, ...]: the step the process
\* is at, the dumped contents, its open descriptor, the chunks written, the
\* pending exception and the step that raised it.  For the statements about
\* readers it also records old, what P held when the process entered save(),
\* p0, what P held before any save(), lastr, whether the last rename onto P
\* was this process's, and rc, the contents this process renamed onto P last.
Idle == [pc |-> "idle", c |-> <<>>, fd |-> NoIno, n |-> 0, exc |-> "none",
         at |-> "none", old |-> Absent, p0 |-> Absent, lastr |-> FALSE, rc |-> <<>>]

\* the record of a process entering save() with the contents c
Entering(w, c) ==
    [Idle EXCEPT !.c = c, !.old = ReadFile(fs, "P"), !.p0 = wr[w].p0,
                 !.lastr = wr[w].lastr, !.rc = wr[w].rc]

\* the documents process w saves: {a: {b: v}} for process 1, {a: {x: v}} for
\* the others
WriterTree(w, v) ==
    SetNode(SetNode(EmptyTree, <<Ka>>, MAP), <<Ka, IF w = 1 THEN Kb ELSE Kx>>, v)
WriterDocs(w) == {Dump(WriterTree(w, v)) : v \in Values}

OpenFds == {wr[w].fd : w \in DOMAIN wr} \ {NoIno}

\* lines 138-147: the document is dirty and not corrupted; contents are
\* dumped, and the directory is made when P is not a file
WBegin(w) ==
    /\ wr[w].pc \in {"idle", "done"}
    /\ \E c \in WriterDocs(w), mkfail \in BOOLEAN :
          IF ~IsFile(fs, "P") /\ mkfail
          THEN wr' = [wr EXCEPT ![w] = [Entering(w, c) EXCEPT !.pc = "done",
                                          !.exc = "IOError", !.at = "makedirs"]]
          ELSE /\ ~mkfail
               /\ wr' = [wr EXCEPT ![w] = [Entering(w, c) EXCEPT !.pc = "open"]]
    /\ UNCHANGED <<docvars, fs, last>>

\* line 20: codecs.open(tmp, 'w')
WOpen(w) ==
    /\ wr[w].pc = "open"
    /\ \/ LET o == FsOpenW(fs, TmpName, Linked(fs) \cup OpenFds)
          IN  /\ fs' = o.fs
              /\ wr' = [wr EXCEPT ![w].pc = "write", ![w].fd = o.ino]
       \/ /\ wr' = [wr EXCEPT ![w].pc = "remove", ![w].exc = "IOError", ![w].at = "open"]
          /\ UNCHANGED fs
    /\ UNCHANGED <<docvars, last>>

\* lines 21-22: one chunk of the contents reaches the file, or the write fails
\* and the with statement closes the descriptor
WWrite(w) ==
    /\ wr[w].pc = "write"
    /\ wr[w].n < NChunks(wr[w].c)
    /\ \/ /\ fs' = FsWriteAt(fs, wr[w].fd, ChunkOff(wr[w].c, wr[w].n + 1),
                             Chunk(wr[w].c, wr[w].n + 1))
          /\ wr' = [wr EXCEPT ![w].n = wr[w].n + 1]
       \/ /\ wr' = [wr EXCEPT ![w].pc = "remove", ![w].fd = NoIno,
                              ![w].exc = "IOError", ![w].at = "write"]
          /\ fs' = Reclaim(fs, OpenFds \ {wr[w].fd})
    /\ UNCHANGED <<docvars, last>>

\* lines 23-25: the descriptor is closed and tmp is renamed onto the path
WRename(w) ==
    /\ wr[w].pc = "write"
    /\ wr[w].n = NChunks(wr[w].c)
    /\ \E fail \in BOOLEAN :
          IF fail \/ ~IsFile(fs, TmpName)
          THEN /\ wr' = [wr EXCEPT ![w].pc = "remove", ![w].fd = NoIno,
                                   ![w].exc = "IOError", ![w].at = "rename"]
               /\ fs' = Reclaim(fs, OpenFds \ {wr[w].fd})
          ELSE /\ wr' = [v \in DOMAIN wr |->
                            IF v = w
                            THEN [wr[v] EXCEPT !.pc = "remove", !.fd = NoIno,
                                               !.lastr = TRUE, !.rc = wr[v].c]
                            ELSE [wr[v] EXCEPT !.lastr = FALSE]]
               /\ fs' = Reclaim(FsRename(fs, TmpName, "P"), OpenFds \ {wr[w].fd})
    /\ UNCHANGED <<docvars, last>>

\* lines 26-30 and 149: the finally block, then save() returns or raises
WRemove(w) ==
    /\ wr[w].pc = "remove"
    /\ \E rmfail \in BOOLEAN :
          fs' = Reclaim(RemoveTmp(fs, rmfail), OpenFds)
    /\ wr' = [wr EXCEPT ![w].pc = "done"]
    /\ UNCHANGED <<docvars, last>>

Begin == \E w \in DOMAIN wr : WBegin(w)
OpenTmp == \E w \in DOMAIN wr : WOpen(w)
WriteTmp == \E w \in DOMAIN wr : WWrite(w)
RenameTmp == \E w \in DOMAIN wr : WRename(w)
Finally == \E w \in DOMAIN wr : WRemove(w)

WNext ==
    \/ Begin
    \/ OpenTmp
    \/ WriteTmp
    \/ RenameTmp
    \/ Finally

\* one process saving, several times over
InitOne ==
    /\ fs \in InitialFs
    /\ yaml = EmptyTree /\ dirty = FALSE /\ corrupted = FALSE
    /\ corrupted_error_message = NoneMsg
    /\ last = Called("init", "none", FALSE)
    /\ wr = [w \in {1} |-> [Idle EXCEPT !.p0 = ReadFile(fs, "P")]]

SpecOne == InitOne /\ [][WNext]_vars

\* two processes saving the same path, which is missing or holds "a: {x: 1}"
InitTwo ==
    /\ fs \in {EmptyFs, WithFile(<<Line(1, Ka, HDR), Line(2, Kx, 1)>>)}
    /\ yaml = EmptyTree /\ dirty = FALSE /\ corrupted = FALSE
    /\ corrupted_error_message = NoneMsg
    /\ last = Called("init", "none", FALSE)
    /\ wr = [w \in {1, 2} |-> [Idle EXCEPT !.p0 = ReadFile(fs, "P")]]

SpecTwo == InitTwo /\ [][WNext]_vars

\* ------------------------------------------------- properties
Mutators == {"set_value", "set_values", "_ensure_section", "transform_yaml", "save"}

\* the fault makes a step of save() fail: makedirs is only called when P is
\* not a file
FaultHits(f, fault) ==
    \/ fault.at \in {"open", "write", "rename"}
    \/ fault.at = "makedirs" /\ ~IsFile(f, "P")

\* C1: while corrupted is true, a call of set_value, set_values,
\* _ensure_section, transform_yaml or save raises the modify-corrupted error
\* and changes neither the tree, dirty, corrupted, the message nor the
\* directory (P and P.tmp); transform_yaml does not call the transformer.
C1_CorruptedBlocksMutators ==
    [][(corrupted /\ last'.op \in Mutators)
          => /\ last'.exc = "ModifyCorrupted"
             /\ ~last'.ran
             /\ ~last'.wrote
             /\ UNCHANGED <<docvars, fs>>]_vars

C1_Witness ==
    /\ corrupted
    /\ last.op = "transform_yaml"
    /\ last.exc = "ModifyCorrupted"
    /\ IsFile(fs, "P")

\* C2: with one process running the replace protocol, what a reader finds
\* at P is at every step either what P held when the protocol started or
\* the complete new contents; after a write of the temporary file that
\* failed, it is what P held at the start.
C2_ReaderSeesOldOrNew ==
    \A w \in DOMAIN wr :
        wr[w].pc # "idle" =>
            /\ ReadFile(fs, "P") \in {wr[w].old, FileOf(wr[w].c)}
            /\ wr[w].at = "write" => ReadFile(fs, "P") = wr[w].old

C2_Witness ==
    \E w \in DOMAIN wr :
        /\ wr[w].at = "write"
        /\ wr[w].n >= 1
        /\ wr[w].old.exists
        /\ wr[w].old.data # wr[w].c

\* C3: a save() of a dirty, non-corrupted document in which the directory
\* creation, the write of the temporary file or the rename fails raises the
\* I/O error and leaves the tree, dirty (true), corrupted and the message as
\* they were; a save() after it, with nothing failing, writes the file.
C3_FailedSaveKeepsDirty ==
    (dirty /\ ~corrupted) =>
        \A fault \in Faults :
            FaultHits(fs, fault) =>
                LET r == SaveDoc(Self, fs, fault)
                IN  /\ r.exc = "IOError"
                    /\ r.doc = Self
                    /\ r.doc.dirty
                    /\ \A again \in Faults :
                         again.at = "none" =>
                            LET r2 == SaveDoc(r.doc, r.fs, again)
                            IN  /\ r2.wrote
                                /\ r2.exc = "none"
                                /\ ReadFile(r2.fs, "P") = FileOf(Dump(yaml))

C3_Witness ==
    /\ last.op = "save"
    /\ last.exc = "IOError"
    /\ last.wrote
    /\ dirty
    /\ yaml # EmptyTree

\* C4: a save() that succeeds on a dirty, non-corrupted document leaves at P
\* the serialization of the tree and dirty false; a save() of a document
\* that is not dirty changes nothing in the directory; so the save() that
\* follows a successful one writes nothing.
C4_SaveWritesOnlyWhenDirty ==
    ~corrupted =>
        \A fault \in Faults :
            LET r == SaveDoc(Self, fs, fault)
            IN  /\ (dirty /\ r.exc = "none") =>
                      /\ r.wrote
                      /\ ReadFile(r.fs, "P") = FileOf(Dump(yaml))
                      /\ ~r.doc.dirty
                      /\ r.doc.yaml = yaml
                      /\ \A f2 \in Faults :
                            LET r2 == SaveDoc(r.doc, r.fs, f2)
                            IN  r2.fs = r.fs /\ ~r2.wrote /\ r2.exc = "none"
                /\ ~dirty => (r.fs = fs /\ ~r.wrote /\ r.exc = "none" /\ r.doc = Self)
                /\ r.wrote => dirty

C4_Witness ==
    /\ last.op = "save"
    /\ last.exc = "none"
    /\ ~last.wrote
    /\ ~dirty
    /\ ReadFile(fs, "P") = FileOf(Dump(yaml))
    /\ HasKey(yaml, <<Ka>>, Kb)

KeyArgs == SetKeys \cup {NoKey}

\* C5: when a non-corrupted document that was only used through load,
\* save and the accessors is saved successfully and then loaded, get_value
\* returns for every section path, key and default what it returned before
\* the save.
C5_RoundTrip ==
    ~corrupted =>
        \A fault \in Faults :
            LET r == SaveDoc(Self, fs, fault)
                l == LoadDoc(r.doc, ReadFile(r.fs, "P"), "ok")
            IN  r.exc = "none" =>
                    /\ l.exc = "none"
                    /\ \A path \in SectionPaths, key \in KeyArgs, default \in Values :
                          GetValue(l.doc.yaml, path, key, default)
                              = GetValue(yaml, path, key, default)

C5_Witness ==
    /\ last.op = "load"
    /\ last.exc = "none"
    /\ ~dirty
    /\ ~corrupted
    /\ HasKey(yaml, <<Ka, Kb>>, Kb)
    /\ GetValue(yaml, <<"a", ".", "b">>, Kb, 1).ret = Leaf(1)
    /\ ~GetValue(yaml, <<"a", ".", "b">>, Kb, 1).isdefault

\* every mutating call on the document s raises the modify-corrupted error
Blocked(s, f) ==
    /\ \A path \in SectionPaths, key \in SetKeys, value \in Values :
          SetValue(s, path, key, value).exc = "ModifyCorrupted"
    /\ \A path \in SectionPaths, values \in ValueDicts :
          SetValues(s, path, values).exc = "ModifyCorrupted"
    /\ \A path \in SectionPaths : EnsureSection(s, path).exc = "ModifyCorrupted"
    /\ \A tr \in Transformers : TransformYaml(s, tr).exc = "ModifyCorrupted"
    /\ \A fault \in Faults : SaveDoc(s, f, fault).exc = "ModifyCorrupted"

\* C6: once a load() has set corrupted, every mutating call fails, and goes
\* on failing after every step that is not a load() returning normally.
C6_CorruptedUntilReload ==
    [][(corrupted /\ ~(last'.op = "load" /\ last'.exc = "none"))
          => (Blocked(Self, fs) /\ Blocked(Self', fs'))]_vars

\* C7: when P does not exist, load() (and so the constructor) returns
\* normally from any state and leaves corrupted false, dirty true and an
\* empty mapping, on which get_value returns the default for every section
\* path and key.
C7_MissingFileLoadsFresh ==
    ~IsFile(fs, "P") =>
        /\ LET r == LoadDoc(Self, ReadFile(fs, "P"), "ok")
           IN  /\ r.exc = "none"
               /\ r.doc = Doc(EmptyTree, TRUE, FALSE, NoneMsg)
               /\ \A path \in SectionPaths, key \in KeyArgs, default \in Values :
                     GetValue(r.doc.yaml, path, key, default)
                         = [exc |-> "none", isdefault |-> TRUE, ret |-> Leaf(default)]
        /\ (last.op \in {"init", "load"} /\ last.exc = "none")
              => Self = Doc(EmptyTree, TRUE, FALSE, NoneMsg)

C7_Witness ==
    /\ ~IsFile(fs, "P")
    /\ last.op = "load"
    /\ last.exc = "none"
    /\ dirty
    /\ ~corrupted
    /\ yaml = EmptyTree

\* C8: when P exists and does not parse, load() returns normally with
\* corrupted true, the parser's diagnostic as the message and an empty
\* mapping as the tree; and in every state the message is present exactly
\* when corrupted is true.
C8_ParseFailureIsRecorded ==
    /\ corrupted <=> (corrupted_error_message # NoneMsg)
    /\ (IsFile(fs, "P") /\ Parse(ReadFile(fs, "P").data).err) =>
          /\ LET r == LoadDoc(Self, ReadFile(fs, "P"), "ok")
             IN  /\ r.exc = "none"
                 /\ r.doc.corrupted
                 /\ r.doc.msg = Parse(ReadFile(fs, "P").data).msg
                 /\ r.doc.msg # NoneMsg
                 /\ r.doc.yaml = EmptyTree
          /\ (last.op \in {"init", "load"} /\ last.exc = "none")
                => /\ corrupted
                   /\ corrupted_error_message = Parse(ReadFile(fs, "P").data).msg
                   /\ yaml = EmptyTree

C8_Witness ==
    /\ IsFile(fs, "P")
    /\ Parse(ReadFile(fs, "P").data).err
    /\ last.op = "load"
    /\ last.exc = "none"
    /\ corrupted
    /\ corrupted_error_message = "YAMLError"

\* the state __init__ calls load() in
Constructed == Doc(EmptyTree, FALSE, FALSE, NoneMsg)

\* C9: what a load() that returns normally leaves is the same from every
\* state of the document: it is what the constructor would leave for the
\* same file; a file that parses to a document leaves tree = the parsed
\* document, dirty false and corrupted false.
C9_LoadDiscardsState ==
    LET f == ReadFile(fs, "P")
        r == LoadDoc(Self, f, "ok")
    IN  /\ r.exc = "none"
        /\ r = LoadDoc(Constructed, f, "ok")
        /\ (f.exists /\ ~Parse(f.data).err /\ ~Parse(f.data).none)
              => r.doc = Doc(Parse(f.data).tree, FALSE, FALSE, NoneMsg)
        /\ (last.op = "load" /\ last.exc = "none")
              => Self = LoadDoc(Constructed, f, "ok").doc

C9_Witness ==
    /\ last.op = "load"
    /\ last.exc = "none"
    /\ ~dirty
    /\ ~corrupted
    /\ yaml = Parse(ReadFile(fs, "P").data).tree
    /\ yaml # EmptyTree

\* what a reader may find at P without having read a half-written file
CompleteFiles ==
    {wr[w].p0 : w \in DOMAIN wr}
        \cup {FileOf(c) : c \in UNION {WriterDocs(w) : w \in DOMAIN wr}}

\* C10: with two processes inside save() on the same path, P holds at every
\* step what it held at the start or the complete contents of one of the
\* processes, and when both have finished it holds the contents of the
\* process whose rename came last.
C10_ConcurrentSavesKeepPWhole ==
    /\ ReadFile(fs, "P") \in CompleteFiles
    /\ (\A w \in DOMAIN wr : wr[w].pc = "done") =>
          \A w \in DOMAIN wr : wr[w].lastr => ReadFile(fs, "P") = FileOf(wr[w].rc)

\* C11: in every state reached through load, save, set_value, set_values,
\* _ensure_section and get_value, corrupted states included, get_value
\* returns for every section path, key and default without raising.
C11_GetValueNeverRaises ==
    \A path \in SectionPaths, key \in KeyArgs, default \in Values :
        GetValue(yaml, path, key, default).exc = "none"

\* C12: a get_value call, whatever its section path, key and default and
\* whether it returns or raises, leaves the tree (no section is created),
\* dirty, corrupted, the message and the directory as they were; a save()
\* that wrote nothing before the call writes nothing after it.
C12_GetValueReadOnly ==
    [][(last'.op = "get_value")
          => /\ UNCHANGED <<docvars, fs>>
             /\ \A fault \in FaultsRm({FALSE}) :
                   LET before == SaveDoc(Self, fs, fault)
                       after == SaveDoc(Self', fs', fault)
                   IN  (~before.wrote) => (~after.wrote /\ after.fs = fs)]_vars

C12_Witness ==
    /\ last.op = "get_value"
    /\ last.exc = "none"
    /\ ~dirty
    /\ ~corrupted
    /\ HasKey(yaml, <<>>, Ka)
    /\ yaml[<<Ka>>] = MAP
    /\ ~HasKey(yaml, <<Ka>>, Kb)

\* a save() call in which no step fails
NoFault == [at |-> "none", n |-> 0, rm |-> FALSE]

\* C13 as stated: on a non-corrupted document every set_value call and every
\* set_values call that returns leaves dirty true, whatever the section
\* path and the values mapping, and the next save() writes the file.
C13_SettersAlwaysMarkDirty ==
    ~corrupted =>
        /\ \A path \in SectionPaths, key \in SetKeys, value \in Values :
              LET r == SetValue(Self, path, key, value)
              IN  r.exc = "none" => (r.doc.dirty /\ SaveDoc(r.doc, fs, NoFault).wrote)
        /\ \A path \in SectionPaths, values \in ValueDicts :
              LET r == SetValues(Self, path, values)
              IN  r.exc = "none" => (r.doc.dirty /\ SaveDoc(r.doc, fs, NoFault).wrote)

\* C13 amended: on a non-corrupted document every set_value call that
\* returns, and every set_values call that returns and was given at least
\* one entry, leaves dirty true, so that the next save() writes the file; a
\* set_values call with an empty mapping does what _ensure_section does,
\* and leaves dirty false only if it left the tree as it was.
C13_SettersMarkDirtyUnlessEmpty ==
    ~corrupted =>
        /\ \A path \in SectionPaths, key \in SetKeys, value \in Values :
              LET r == SetValue(Self, path, key, value)
              IN  r.exc = "none" => (r.doc.dirty /\ SaveDoc(r.doc, fs, NoFault).wrote)
        /\ \A path \in SectionPaths, values \in ValueDicts :
              LET r == SetValues(Self, path, values)
                  e == EnsureSection(Self, path)
              IN  r.exc = "none" =>
                     /\ (DOMAIN values # {})
                            => (r.doc.dirty /\ SaveDoc(r.doc, fs, NoFault).wrote)
                     /\ (DOMAIN values = {}) => (r.doc = e.doc)
                     /\ (~r.doc.dirty) => (r.doc.yaml = yaml /\ ~dirty)

\* a set_values call has returned and the document is not dirty
C13_Witness ==
    /\ last.op = "set_values"
    /\ last.exc = "none"
    /\ ~dirty
    /\ ~corrupted
    /\ HasKey(yaml, <<>>, Ka)

\* the exception _atomic_replace ends with when the step at fails
ReplaceOutcome(at) == IF at \in {"open", "write", "rename"} THEN "IOError" ELSE "none"

\* C14: in a save() that reaches _atomic_replace, whether the open or the
\* write of the temporary file fails, the rename fails or the rename
\* succeeds: when os.remove does not fail, no P.tmp exists once save() has
\* returned or raised (a P.tmp left by an earlier call included); and a
\* failing os.remove changes neither the exception save() ends with, nor
\* the document, nor what P holds.
C14_TmpReleased ==
    \A fault \in Faults :
        LET r == SaveDoc(Self, fs, fault)
            r0 == SaveDoc(Self, fs, [fault EXCEPT !.rm = FALSE])
        IN  r.wrote =>
               /\ r0.wrote
               /\ ~IsFile(r0.fs, TmpName)
               /\ r.exc = ReplaceOutcome(fault.at)
               /\ r.exc = r0.exc
               /\ r.doc = r0.doc
               /\ ReadFile(r.fs, "P") = ReadFile(r0.fs, "P")

\* a P.tmp that a failed removal left behind, and a document about to be saved
C14_Witness ==
    /\ IsFile(fs, TmpName)
    /\ dirty
    /\ ~corrupted
    /\ last.op = "save"
    /\ last.exc = "IOError"
    /\ last.wrote

\* the nodes a section path names: the prefixes of its pieces
Segments(path) == {SubSeq(Split(path), 1, n) : n \in 1..Len(Split(path))}

\* the tree t with an empty mapping at every segment of path it lacks
WithSegments(t, path) ==
    [q \in DOMAIN t \cup Segments(path) |-> IF q \in DOMAIN t THEN t[q] ELSE MAP]

\* C15: an _ensure_section(path) call that returns on a non-corrupted
\* document leaves the tree with an empty mapping at exactly the segments
\* of the path that were missing and nothing else changed, and dirty true
\* if and only if it was true or a segment was created; after it
\* _get_section_or_none(path) is not None, and a second _ensure_section(path)
\* changes nothing.
C15_EnsureSectionCreatesMissing ==
    ~corrupted =>
        \A path \in SectionPaths :
            LET r == EnsureSection(Self, path)
                g == GetSection(r.doc.yaml, <<>>, Split(path))
                again == EnsureSection(r.doc, path)
            IN  r.exc = "none" =>
                   /\ r.doc.yaml = WithSegments(yaml, path)
                   /\ r.doc.dirty = (dirty \/ (Segments(path) \ DOMAIN yaml # {}))
                   /\ r.doc.corrupted = corrupted
                   /\ r.doc.msg = corrupted_error_message
                   /\ again.exc = "none"
                   /\ again.doc = r.doc
                   /\ g.kind = "node"
                   /\ ~IsNone(r.doc.yaml, g)

\* C16: on a non-corrupted document transform_yaml calls the transformer on
\* the tree and returns with dirty = (dirty before) or (the result is not
\* the object True): any other result, a true one included, marks the
\* document dirty, and no result clears dirty; corrupted and the message
\* are unchanged.
C16_TransformMarksDirty ==
    ~corrupted =>
        \A tr \in Transformers :
            LET r == TransformYaml(Self, tr)
            IN  /\ r.exc = "none"
                /\ r.ran
                /\ r.doc.dirty = (dirty \/ tr.ret # "True")
                /\ r.doc.yaml = ApplyTransformer(yaml, tr)
                /\ r.doc.corrupted = corrupted
                /\ r.doc.msg = corrupted_error_message

\* a transformer has run and reported no change on a clean document
C16_Witness ==
    /\ last.op = "transform_yaml"
    /\ last.ran
    /\ last.exc = "none"
    /\ ~dirty
    /\ ~corrupted
    /\ IsFile(fs, "P")

\* the file P exists and parses to the tree t
OnDisk(f, t) ==
    /\ IsFile(f, "P")
    /\ ~Parse(ReadFile(f, "P").data).err
    /\ ~Parse(ReadFile(f, "P").data).none
    /\ Parse(ReadFile(f, "P").data).tree = t

C18_SaveNeverReplacesUnparsed ==
    [][(IsFile(fs, "P") /\ Parse(ReadFile(fs, "P").data).err /\ last'.op = "save")
          => (ReadFile(fs', "P") = ReadFile(fs, "P"))]_vars

====
